---- MODULE Spec2Model ----
(***************************************************************************)
(* Model of the zabbix-mcp-server session transports and tool handlers.    *)
(*                                                                         *)
(*   Spec      MCPStreamServer (src/src/http-stream-server.ts): the        *)
(*             session table, GET /sse, POST /message, DELETE /session/:id,*)
(*             the client close/error hooks and the periodic session sweep.*)
(*   SpecSSE   MCPSSEServer (src/unnamed/part_003): its sessions map and   *)
(*             servers list, GET /sse, POST /message, the onclose timer.   *)
(*   SpecTools the tools/call handlers of MCPStreamServer and of the stdio *)
(*             server on the shared ZabbixClient                           *)
(*             (src/src/zabbix-client.ts), one step per upstream request.  *)
(*   SpecLogin tool calls handled concurrently on the shared client of     *)
(*             MCPStreamServer before it is authenticated.                 *)
(*   SpecCalls MCPStreamServer sessions with tools/call requests in flight *)
(*             on them, up to the write of each response.                  *)
(*   SpecRouting MCPStreamServer sessions and POST /message requests that  *)
(*             carry an identifier in the query and one in the header.     *)
(*   SpecProcess the MCPStreamServer process from its start to its exit:   *)
(*             constructor, start(), GET /health, SIGINT.                  *)
(*                                                                         *)
(* The specifications share the variables; each leaves the variables of    *)
(* the components it does not model as they are.                           *)
(*                                                                         *)
(* In Spec, time is counted in units of five minutes (the sweep period), so*)
(* the sweep period is 1 and the idle timeout of 30 minutes is 6.          *)
(* Session identifiers are UUIDs in the code; the model draws them from a  *)
(* counter, which gives every randomUUID() call a value never seen before. *)
(* A JavaScript Map iterates in insertion order and keys are never         *)
(* re-inserted, so insertion order is the numeric order of the keys.       *)
(***************************************************************************)
EXTENDS Integers, Sequences, FiniteSets, TLC

\* ------------------------------------------------------------------ bounds
MaxOpens == 2       \* GET /sse requests per behaviour
MaxTime  == 8       \* the clock stops here
RequestPeriod == 2  \* requests arrive when the clock is a multiple of this
MaxCalls == 1       \* tools/call requests in flight at once (SpecTools)
MaxConcurrent == 2  \* tools/call requests in flight at once (SpecLogin, SpecCalls)
RoutingMaxTime == 2 \* the clock stops here in SpecRouting

\* ------------------------------------------------------- program constants
sessionTimeout == 6     \* 30 * 60 * 1000 ms, in units of 5 minutes
sweepInterval  == 1     \* 5 * 60 * 1000 ms, in units of 5 minutes

NoId == 0               \* an absent (falsy) query parameter or header

oncloseDelay == 1       \* MCPSSEServer: 60000 ms, in minutes
oncloseIdle  == 5       \* MCPSSEServer: 300000 ms, in minutes

VARIABLES
  sessions,     \* MCPStreamServer.sessions: key -> [server, transport, lastActivity]
  conns,        \* one record per GET /sse request: its stream and handler position
  nextId,       \* source of fresh identifiers (randomUUID)
  now,          \* Date.now()
  last,         \* the response of the last HTTP request or timer callback
  sseServers,   \* MCPSSEServer.servers
  sseSessions,  \* MCPSSEServer.sessions: transport.sessionId -> [lastActivity]
  sseConns,     \* one record per GET /sse request on MCPSSEServer
  sseNow,       \* Date.now() of the MCPSSEServer process, in minutes
  env,          \* process.env.READ_ONLY ("" when it is not set)
  proc,         \* the server process: how it was started and how far it got
  readOnly,     \* the readOnly flag of the running server
  program,      \* which program serves the tool calls: "stream" or "stdio"
  authToken,    \* ZabbixClient.authToken of the shared client
  calls         \* the tools/call requests in flight, one record per slot

streamVars == <<sessions, conns, nextId, now>>
sseVars == <<sseServers, sseSessions, sseConns, sseNow>>
processVars == <<env, proc>>
toolVars == <<processVars, readOnly, program, authToken, calls>>
vars == <<streamVars, last, sseVars, toolVars>>

\* ------------------------------------------------------------------ helpers
Min(S) == CHOOSE x \in S : \A y \in S : x <= y
Max(S) == CHOOSE x \in S : \A y \in S : y <= x

\* an identifier no randomUUID() call ever returns
JunkId == 2 * MaxOpens + 1

\* the function f with key k bound to v (Map.set)
MapSet(f, k, v) == [x \in DOMAIN f \cup {k} |-> IF x = k THEN v ELSE f[x]]

FindSessionByTransport(S, requested) ==
  LET M == {k \in DOMAIN S : S[k].transport = requested}
  IN  IF M = {} THEN NoId ELSE Min(M)

\* POST /message, lines 847-857: the first entry, in iteration order, whose
\* transport.sessionId or whose key equals the requested id; NoId if none
FindSession(S, requested) ==
  LET M == {k \in DOMAIN S : S[k].transport = requested \/ k = requested}
  IN  IF M = {} THEN NoId ELSE Min(M)

\* cleanupSession, lines 913-925, applied to the keys in K, server.close()
\* throwing for the keys in F: the table after it (the entry is deleted in
\* the finally block, whatever close() did)
CleanupTableClears(S, K, F) == [x \in (IF K = {} THEN DOMAIN S ELSE {}) |-> S[x]]
CleanupTableNoFinally(S, K, F) == [x \in DOMAIN S \ (K \ F) |-> S[x]]
CleanupTable(S, K, F) == [x \in DOMAIN S \ K |-> S[x]]

CleanupConnsUnreleased(S, C, K, F, cause) == C

\* cleanupSession, lines 913-925, applied to the keys in K: the streams after
\* it; server.close() is attempted for every key that has an entry and
\* throws for the keys in F, otherwise it ends a stream that is still open
\* (the 'close' event of the request then follows)
CleanupConns(S, C, K, F, cause) ==
  [x \in DOMAIN C |->
     IF x \in K /\ x \in DOMAIN S
       THEN [C[x] EXCEPT !.routedAt = -1,
                         !.stream = IF x \notin F /\ @ = "open" THEN "ended" ELSE @,
                         !.how = cause]
       ELSE C[x]]

\* identifiers a request can carry: the absent one, one that was never
\* issued, and those a client was sent (UUIDs are not guessed): the key from
\* the announcement of line 818, the transport's id from the endpoint event
PresentableIds(C) ==
  {NoId, JunkId} \cup {k \in DOMAIN C : C[k].known = "both"}
                 \cup {C[k].tid : k \in {x \in DOMAIN C : C[x].known # "none"}}

\* GET /sse, lines 789-799: every request builds a Server of its own; the
\* model names it after the session
SharedServer(sessionId) == 1
ServerOf(sessionId) == sessionId

\* server.connect(transport), line 815: a server sends on the transport it
\* was connected to last; the connection that transport writes to, NoId if
\* the server was never connected
BoundTransport(C, server) ==
  LET M == {k \in DOMAIN C : C[k].server = server}
  IN  IF M = {} THEN NoId ELSE Max(M)

\* a write reaches the client only while the response stream is up; after
\* server.close() or the client's disconnect the transport drops it
WritableAlways(C, k) == k # NoId
Writable(C, k) == k # NoId /\ C[k].stream = "open"

\* GET /sse, lines 818-829: the announcement is written and the close and
\* error handlers are attached once server.connect has resolved
Hooked(c) == c.phase = "open"

\* the events written on the channel of a connection so far, in order:
\* transport.start(), inside server.connect (line 815), writes the headers
\* and the "endpoint" event; line 818 writes the session announcement
Channel(c) ==
  CASE c.known = "none" -> <<>>
    [] c.known = "tid"  -> <<"endpoint">>
    [] OTHER            -> <<"endpoint", "session">>

\* GET /sse, line 805: new SSEServerTransport draws the transport's own
\* sessionId with randomUUID(), a value no earlier call returned; n is the
\* next unused value of the counter after the key was drawn from it
TransportSessionIdReused(n) == IF n > 2 THEN n - 2 ELSE n
TransportSessionId(n) == n

\* GET /sse, lines 808-812: this.sessions.set(sessionId, {...}), before the
\* await of line 815
RegisterLate(S, sessionId, entry) == S
Register(S, sessionId, entry) == MapSet(S, sessionId, entry)

\* POST /message, line 866: foundSession.lastActivity = Date.now()
TouchNot(S, k, t) == S
TouchEpoch(S, k, t) == [S EXCEPT ![k].lastActivity = 0]
TouchAll(S, k, t) == [x \in DOMAIN S |-> [S[x] EXCEPT !.lastActivity = t]]
Touch(S, k, t) == [S EXCEPT ![k].lastActivity = t]

\* the sessions a sweep at time t evicts, line 934
ExpiredInclusive(S, t) == {k \in DOMAIN S : t - S[k].lastActivity >= sessionTimeout}
ExpiredSwapped(S, t) == {k \in DOMAIN S : S[k].lastActivity - t > sessionTimeout}
Expired(S, t) == {k \in DOMAIN S : t - S[k].lastActivity > sessionTimeout}

\* the sessions a sweep at time t puts through cleanupSession when
\* server.close() throws for the keys in F, lines 932-938: the throw is caught
\* inside cleanupSession (lines 918-920), so the loop visits every expired
\* session
SweptUntilThrow(S, t, F) == {k \in Expired(S, t) : \A f \in F : k <= f}
Swept(S, t, F) == Expired(S, t)

\* what the last request was answered: the operation, the identifier it
\* carried and the HTTP status (0 where there is none)
Reply(op, q, status) == [op |-> op, q |-> q, status |-> status]

\* ZabbixClient.authToken
NoToken == "none"            \* authToken = null
SessionToken == "session"    \* the result of user.login

\* a call's signal (what the running frame was handed), a stack frame, and
\* a slot with no call in it
Sig(k, v) == [k |-> k, v |-> v]
Frame(f, a, pc) == [f |-> f, a |-> a, pc |-> pc]

IdleCall ==
  [tool |-> <<>>, hasArgs |-> FALSE, variant |-> FALSE,
   stack |-> <<>>, sig |-> Sig("idle", ""), sent |-> <<>>,
   thrown |-> FALSE, session |-> NoId, server |-> NoId]

\* the slots a tools/call request can occupy while it is handled
Slots == 1..(IF MaxCalls > MaxConcurrent THEN MaxCalls ELSE MaxConcurrent)

\* constructor, line 51, and stdio server, line 1082:
\* readOnly = process.env.READ_ONLY !== 'false'
ReadOnlyFromEnv(value) == value # "false"

\* values of the READ_ONLY environment variable ("" when it is not set)
EnvValues == {"", "true", "1", "yes", "false", "0", "no"}

\* --------------------------------------------------------------------- Init
InitStream ==
  /\ sessions = <<>>
  /\ conns = <<>>
  /\ nextId = 1
  /\ now = 0
  /\ last = Reply("none", NoId, 0)

\* MCPSSEServer after its constructor (part_003, lines 13-34)
InitSSE ==
  /\ sseServers = {}
  /\ sseSessions = <<>>
  /\ sseConns = <<>>
  /\ sseNow = 0

\* a server process that is up: started through the HTTP entry point (lines
\* 1001-1025), listening, its sweep timer running
Running ==
  [state |-> "started", entry |-> "http", port |-> "free", upstream |-> "up",
   timer |-> TRUE, cleared |-> FALSE, listener |-> TRUE, exit |-> -1]

InitProcessRunning == proc = Running

\* MCPStreamServer with READ_ONLY unset, before any tool call
InitToolsDefault ==
  /\ env = ""
  /\ program = "stream"
  /\ readOnly = ReadOnlyFromEnv(env)
  /\ authToken = NoToken
  /\ calls = [c \in Slots |-> IdleCall]

Init == InitStream /\ InitSSE /\ InitToolsDefault /\ InitProcessRunning

\* ------------------------------------------------------------------ GET /sse
\* lines 775-815: draw the session id, build server and transport, store the
\* session, then await server.connect(transport)
OpenBegin ==
  /\ now % RequestPeriod = 0
  /\ nextId + 1 <= 2 * MaxOpens
  /\ LET sessionId == nextId
         tid == TransportSessionId(nextId + 1)
     IN  /\ sessions' = Register(sessions, sessionId,
                          [server |-> ServerOf(sessionId), transport |-> tid,
                           lastActivity |-> now])
         /\ conns' = MapSet(conns, sessionId,
                          [tid |-> tid, server |-> ServerOf(sessionId),
                           phase |-> "connecting", stream |-> "open",
                           known |-> "none", how |-> "none", routedAt |-> -1])
         /\ nextId' = nextId + 2
         /\ last' = Reply("connect", sessionId, 0)
  /\ UNCHANGED <<now, sseVars, toolVars>>

\* line 815, inside server.connect: transport.start() sends the headers and
\* the SDK's "endpoint" event, which carries the transport's own sessionId
\* (SSE_SERVER_FIXED.md, lines 75-81); a client still listening learns it
ConnectStarts(k) ==
  /\ k \in DOMAIN conns /\ conns[k].phase = "connecting"
  /\ conns' = [conns EXCEPT ![k].phase = "started",
                            ![k].known = IF conns[k].stream = "open" THEN "tid" ELSE @]
  /\ last' = Reply("connect", k, 200)
  /\ UNCHANGED <<sessions, nextId, now, sseVars, toolVars>>

\* lines 815-829: connect resolved; write the announcement, attach the close
\* and error handlers. A write on a stream the client has left is dropped.
OpenAnnounce(k) ==
  /\ k \in DOMAIN conns /\ conns[k].phase = "started"
  /\ conns' = [conns EXCEPT ![k].phase = "open",
                            ![k].known = IF conns[k].stream = "open" THEN "both" ELSE @]
  /\ last' = Reply("open", k, IF conns[k].stream = "open" THEN 200 ELSE 0)
  /\ UNCHANGED <<sessions, nextId, now, sseVars, toolVars>>

\* lines 815, 831-836: server.connect(transport) rejects before the headers
\* went out: the catch block answers 500, which ends the response, and
\* leaves the table as it is
OpenConnectFails(k) ==
  /\ k \in DOMAIN conns /\ conns[k].phase = "connecting"
  /\ conns' = [conns EXCEPT ![k].phase = "failed", ![k].stream = "closed"]
  /\ last' = Reply("openfail", k, 500)
  /\ UNCHANGED <<sessions, nextId, now, sseVars, toolVars>>

\* lines 818, 831-836: res.write of the announcement throws; the headers are
\* sent already, so the catch block only logs
OpenWriteFails(k) ==
  /\ k \in DOMAIN conns /\ conns[k].phase = "started"
  /\ conns' = [conns EXCEPT ![k].phase = "failed"]
  /\ last' = Reply("openfail", k, 0)
  /\ UNCHANGED <<sessions, nextId, now, sseVars, toolVars>>

\* ------------------------------------------------------ client-side events
\* the client drops the connection: req emits 'close'; the handler of lines
\* 821-824 runs only if it is attached by then
ClientClose(k, closeThrows) ==
  /\ k \in DOMAIN conns /\ conns[k].stream = "open"
  /\ LET K == IF Hooked(conns[k]) THEN {k} ELSE {}
         F == IF closeThrows THEN {k} ELSE {}
         C == CleanupConns(sessions, conns, K, F, "hook")
     IN  /\ sessions' = CleanupTable(sessions, K, F)
         /\ conns' = [C EXCEPT ![k].stream = "closed"]
         /\ last' = Reply(IF Hooked(conns[k]) THEN "close" ELSE "drop", k, 0)
  /\ UNCHANGED <<nextId, now, sseVars, toolVars>>

\* req emits 'error' (lines 826-829) while the connection is still up
ClientError(k, closeThrows) ==
  /\ k \in DOMAIN conns /\ conns[k].stream = "open" /\ Hooked(conns[k])
  /\ LET F == IF closeThrows THEN {k} ELSE {}
     IN  /\ sessions' = CleanupTable(sessions, {k}, F)
         /\ conns' = CleanupConns(sessions, conns, {k}, F, "hook")
         /\ last' = Reply("error", k, 0)
  /\ UNCHANGED <<nextId, now, sseVars, toolVars>>

\* the 'close' event that follows the server ending the stream itself
\* (server.close() in cleanupSession): the hook of lines 821-824 runs again
CloseAfterEnd(k) ==
  /\ k \in DOMAIN conns /\ conns[k].stream = "ended" /\ Hooked(conns[k])
  /\ sessions' = CleanupTable(sessions, {k}, {})
  /\ conns' = [CleanupConns(sessions, conns, {k}, {}, "hook") EXCEPT ![k].stream = "closed"]
  /\ last' = Reply("close", k, 0)
  /\ UNCHANGED <<nextId, now, sseVars, toolVars>>

\* ------------------------------------------------------------ POST /message
\* line 841: req.query.sessionId || req.headers['x-session-id']
RequestedSessionIdHeaderFirst(query, header) == IF header # NoId THEN header ELSE query
RequestedSessionId(query, header) == IF query # NoId THEN query ELSE header

\* where a request carries the identifier it is routed by
Via(query, header) ==
  IF query # NoId THEN "query" ELSE IF header # NoId THEN "header" ELSE "none"

\* an identifier, issued by the server, that a request carries in its header
\* next to a query parameter (NoId if there is none)
Shadowed(query, header) ==
  IF query # NoId /\ header # JunkId THEN header ELSE NoId

\* the ways a request can carry identifiers: <<query, header>> with the
\* identifier in the query only, in the header only, in neither, or in the
\* query with a different value in the header
Addressings(ids) ==
  {<<id, NoId>> : id \in ids} \cup {<<NoId, id>> : id \in ids}
    \cup {<<id, JunkId>> : id \in ids \ {NoId, JunkId}}

\* requests that carry an identifier in the query and an issued one in the
\* header
DoubleAddressings(ids) ==
  {<<q, h>> : q \in ids \ {NoId}, h \in ids \ {NoId, JunkId}}

\* the bodies a POST /message can carry: a JSON-RPC message, or one the
\* transport cannot accept (no method)
Payloads == {"ok", "malformed"}

\* what the request was answered: the identifier it carried and where, the
\* kind of body, and the HTTP status
DispatchReply(op, query, header, payload, status) ==
  [op |-> op, q |-> RequestedSessionId(query, header), status |-> status,
   via |-> Via(query, header), payload |-> payload,
   query |-> query, shadowed |-> Shadowed(query, header)]

\* lines 868-880: transport.handlePostMessage(req, res) either throws, which
\* the catch block answers with 500, or answers itself: 202 for a message it
\* accepts, 400 for a body it cannot parse as a message
HandleStatus(payload, handleThrows) ==
  IF handleThrows THEN 500 ELSE IF payload = "ok" THEN 202 ELSE 400

\* lines 840-881
Dispatch(query, header, payload, handleThrows) ==
  LET requestedSessionId == RequestedSessionId(query, header)
      actualSessionId == FindSession(sessions, requestedSessionId)
  IN  /\ now % RequestPeriod = 0
      /\ IF requestedSessionId = NoId
           THEN /\ last' = DispatchReply("dispatch", query, header, payload, 400)
                /\ UNCHANGED <<sessions, conns>>
         ELSE IF actualSessionId = NoId
           THEN /\ last' = DispatchReply("dispatch", query, header, payload, 404)
                /\ UNCHANGED <<sessions, conns>>
         ELSE /\ sessions' = Touch(sessions, actualSessionId, now)
              /\ conns' = [conns EXCEPT ![actualSessionId].routedAt = now]
              /\ last' = DispatchReply("dispatch", query, header, payload,
                                       HandleStatus(payload, handleThrows))
      /\ UNCHANGED <<nextId, now, sseVars, toolVars>>

\* ------------------------------------------------------ DELETE /session/:id
\* lines 884-893
Delete(id, closeThrows) ==
  /\ IF id \in DOMAIN sessions
       THEN /\ sessions' = CleanupTable(sessions, {id}, IF closeThrows THEN {id} ELSE {})
            /\ conns' = CleanupConns(sessions, conns, {id},
                                     IF closeThrows THEN {id} ELSE {}, "delete")
            /\ last' = Reply("delete", id, 200)
       ELSE /\ last' = Reply("delete", id, 404)
            /\ UNCHANGED <<sessions, conns>>
  /\ UNCHANGED <<nextId, now, sseVars, toolVars>>

\* ------------------------------------------------------------------- reaper
\* lines 927-940: the interval callback; F are the sessions whose
\* server.close() throws during this sweep
Sweep(F) ==
  /\ now > 0 /\ now % sweepInterval = 0
  /\ F \subseteq Expired(sessions, now)
  /\ sessions' = CleanupTable(sessions, Swept(sessions, now, F), F)
  /\ conns' = CleanupConns(sessions, conns, Swept(sessions, now, F), F, "sweep")
  /\ last' = Reply("sweep", NoId, 0)
  /\ UNCHANGED <<nextId, now, sseVars, toolVars>>

\* the clock advances; server.connect settles within one unit of time
Tick ==
  /\ now < MaxTime
  /\ \A k \in DOMAIN conns : conns[k].phase \notin {"connecting", "started"}
  /\ now' = now + 1
  /\ last' = Reply("tick", NoId, 0)
  /\ UNCHANGED <<sessions, conns, nextId, sseVars, toolVars>>

Next ==
  \/ OpenBegin
  \/ \E k \in DOMAIN conns : ConnectStarts(k)
  \/ \E k \in DOMAIN conns : OpenAnnounce(k)
  \/ \E k \in DOMAIN conns : OpenConnectFails(k)
  \/ \E k \in DOMAIN conns : OpenWriteFails(k)
  \/ \E k \in DOMAIN conns, t \in BOOLEAN : ClientClose(k, t)
  \/ \E k \in DOMAIN conns, t \in BOOLEAN : ClientError(k, t)
  \/ \E k \in DOMAIN conns : CloseAfterEnd(k)
  \/ \E a \in Addressings(PresentableIds(conns)), p \in Payloads, t \in BOOLEAN :
        Dispatch(a[1], a[2], p, t)
  \/ \E id \in PresentableIds(conns) \ {NoId}, t \in BOOLEAN : Delete(id, t)
  \/ \E F \in SUBSET DOMAIN sessions : Sweep(F)
  \/ Tick

Spec == Init /\ [][Next]_vars

\* ====================================================== MCPSSEServer (SpecSSE)
\* src/unnamed/part_003. Time is counted in minutes here: the onclose timer
\* runs after 1 minute and spares a session used in the last 5 minutes.
\* transport.sessionId is drawn by the SDK; the model numbers the requests.

\* GET /sse, lines 56-98: build transport and server, push the server,
\* register the session under transport.sessionId, install server.onclose,
\* then await setupMCPHandlers(server)
SSEOpenBegin ==
  /\ sseNow % RequestPeriod = 0
  /\ Cardinality(DOMAIN sseConns) < MaxOpens
  /\ LET sessionId == Cardinality(DOMAIN sseConns) + 1
     IN  /\ sseServers' = sseServers \cup {sessionId}
         /\ sseSessions' = MapSet(sseSessions, sessionId, [lastActivity |-> sseNow])
         /\ sseConns' = MapSet(sseConns, sessionId,
                           [phase |-> "setup", stream |-> "open", known |-> FALSE,
                            timer |-> -1])
         /\ last' = Reply("sseopen", sessionId, 0)
  /\ UNCHANGED <<sseNow, streamVars, toolVars>>

\* setupMCPHandlers, lines 147-160 and 242-245, the value verifyConnectivity(true)
\* returned being connectivity: it throws unless connectivity.authenticated
SetupThrows(connectivity) == ~connectivity.authenticated

\* what verifyConnectivity(true) can return (zabbix-client.ts, lines 112-167):
\* upstream unreachable, authentication rejected, authenticated
Connectivities ==
  { [connected |-> FALSE, authenticated |-> FALSE],
    [connected |-> TRUE,  authenticated |-> FALSE],
    [connected |-> TRUE,  authenticated |-> TRUE] }

\* lines 98-105: setupMCPHandlers has returned or thrown. When it throws, the
\* catch block answers 500 (no header was sent yet), which ends the response,
\* and touches neither this.sessions nor this.servers. Otherwise the handlers
\* are registered and server.connect(transport) is awaited.
SSESetupSettles(k, connectivity) ==
  /\ k \in DOMAIN sseConns /\ sseConns[k].phase = "setup"
  /\ IF SetupThrows(connectivity)
       THEN /\ sseConns' = [sseConns EXCEPT ![k].phase = "failed", ![k].stream = "closed"]
            /\ last' = Reply("ssesetupfail", k, 500)
       ELSE /\ sseConns' = [sseConns EXCEPT ![k].phase = "connecting"]
            /\ last' = Reply("sseopen", k, 0)
  /\ UNCHANGED <<sseServers, sseSessions, sseNow, streamVars, toolVars>>

\* line 99: server.connect(transport) resolves; the headers and the endpoint
\* event, which carries transport.sessionId, have been written
SSEConnectDone(k) ==
  /\ k \in DOMAIN sseConns /\ sseConns[k].phase = "connecting"
  /\ sseConns' = [sseConns EXCEPT ![k].phase = "open",
                                  ![k].known = (sseConns[k].stream = "open")]
  /\ last' = Reply("sseopen", k, IF sseConns[k].stream = "open" THEN 200 ELSE 0)
  /\ UNCHANGED <<sseServers, sseSessions, sseNow, streamVars, toolVars>>

\* lines 99-105: server.connect(transport) rejects; the catch block answers
\* 500 when no header was sent
SSEConnectFails(k) ==
  /\ k \in DOMAIN sseConns /\ sseConns[k].phase = "connecting"
  /\ sseConns' = [sseConns EXCEPT ![k].phase = "failed", ![k].stream = "closed"]
  /\ last' = Reply("sseconnectfail", k, 500)
  /\ UNCHANGED <<sseServers, sseSessions, sseNow, streamVars, toolVars>>

\* the client leaves. Once the server is connected the transport closes and
\* server.onclose (lines 83-96) runs: the server is filtered out of
\* this.servers and the timer of line 87 is set for one minute later.
SSEClientClose(k) ==
  /\ k \in DOMAIN sseConns /\ sseConns[k].stream = "open"
  /\ IF sseConns[k].phase = "open"
       THEN /\ sseServers' = sseServers \ {k}
            /\ sseConns' = [sseConns EXCEPT ![k].stream = "closed",
                                            ![k].timer = sseNow + oncloseDelay]
       ELSE /\ sseConns' = [sseConns EXCEPT ![k].stream = "closed"]
            /\ UNCHANGED sseServers
  /\ last' = Reply("sseclose", k, 0)
  /\ UNCHANGED <<sseSessions, sseNow, streamVars, toolVars>>

\* lines 87-95: the timer callback deletes the session if it is still present
\* and was not used during the last five minutes
SSEOncloseTimer(k) ==
  /\ k \in DOMAIN sseConns /\ sseConns[k].timer = sseNow
  /\ sseSessions' =
       IF k \in DOMAIN sseSessions /\ sseNow - sseSessions[k].lastActivity > oncloseIdle
         THEN [x \in DOMAIN sseSessions \ {k} |-> sseSessions[x]]
         ELSE sseSessions
  /\ sseConns' = [sseConns EXCEPT ![k].timer = -1]
  /\ last' = Reply("ssetimer", k, 0)
  /\ UNCHANGED <<sseServers, sseNow, streamVars, toolVars>>

\* POST /message, lines 109-144: only the query parameter is read (line 112),
\* whatever the X-Session-ID header holds, and the session is looked up by key
SSEDispatch(query, header, handleThrows) ==
  LET sessionId == query
  IN  /\ sseNow % RequestPeriod = 0
      /\ IF sessionId = NoId
           THEN /\ last' = DispatchReply("ssedispatch", query, header, "ok", 400)
                /\ UNCHANGED sseSessions
         ELSE IF sessionId \notin DOMAIN sseSessions
           THEN /\ last' = DispatchReply("ssedispatch", query, header, "ok", 404)
                /\ UNCHANGED sseSessions
         ELSE /\ sseSessions' = [sseSessions EXCEPT ![sessionId].lastActivity = sseNow]
              /\ last' = DispatchReply("ssedispatch", query, header, "ok",
                                       HandleStatus("ok", handleThrows))
      /\ UNCHANGED <<sseServers, sseConns, sseNow, streamVars, toolVars>>

\* a minute passes; a timer that is due runs first, and a stream-open request
\* settles within the minute
SSETick ==
  /\ sseNow < MaxTime
  /\ \A k \in DOMAIN sseConns :
        sseConns[k].timer # sseNow /\ sseConns[k].phase \notin {"setup", "connecting"}
  /\ sseNow' = sseNow + 1
  /\ last' = Reply("ssetick", NoId, 0)
  /\ UNCHANGED <<sseServers, sseSessions, sseConns, streamVars, toolVars>>

\* the ids a client of MCPSSEServer can present: none, one never issued, and
\* those of the endpoint events it received
SSEPresentableIds ==
  {NoId, JunkId} \cup {k \in DOMAIN sseConns : sseConns[k].known}

NextSSE ==
  \/ SSEOpenBegin
  \/ \E k \in DOMAIN sseConns, c \in Connectivities : SSESetupSettles(k, c)
  \/ \E k \in DOMAIN sseConns : SSEConnectDone(k)
  \/ \E k \in DOMAIN sseConns : SSEConnectFails(k)
  \/ \E k \in DOMAIN sseConns : SSEClientClose(k)
  \/ \E k \in DOMAIN sseConns : SSEOncloseTimer(k)
  \/ \E a \in Addressings(SSEPresentableIds), t \in BOOLEAN :
        SSEDispatch(a[1], a[2], t)
  \/ SSETick

SpecSSE == Init /\ [][NextSSE]_vars


\* ============================================ tool calls and ZabbixClient (SpecTools)
\* The CallToolRequestSchema handlers of MCPStreamServer (http-stream-server.ts,
\* lines 479-770) and of the stdio server (lines 1527-2095), running on the
\* shared ZabbixClient (zabbix-client.ts). A step of the model runs a call
\* from one answer of the upstream to its next HTTP request, which is where
\* the code awaits.

\* tool names and the words validateReadOnly looks for, as character sequences

host_get ==
  <<"h", "o", "s", "t", "_", "g", "e", "t">>
host_create ==
  <<"h", "o", "s", "t", "_", "c", "r", "e", "a", "t", "e">>
hostgroup_get ==
  <<"h", "o", "s", "t", "g", "r", "o", "u", "p", "_", "g", "e", "t">>
item_get ==
  <<"i", "t", "e", "m", "_", "g", "e", "t">>
item_create ==
  <<"i", "t", "e", "m", "_", "c", "r", "e", "a", "t", "e">>
item_delete ==
  <<"i", "t", "e", "m", "_", "d", "e", "l", "e", "t", "e">>
trigger_get ==
  <<"t", "r", "i", "g", "g", "e", "r", "_", "g", "e", "t">>
problem_get ==
  <<"p", "r", "o", "b", "l", "e", "m", "_", "g", "e", "t">>
history_get ==
  <<"h", "i", "s", "t", "o", "r", "y", "_", "g", "e", "t">>
dashboard_get ==
  <<"d", "a", "s", "h", "b", "o", "a", "r", "d", "_", "g", "e", "t">>
dashboard_create ==
  <<"d", "a", "s", "h", "b", "o", "a", "r", "d", "_", "c", "r", "e", "a", "t", "e">>
dashboard_update ==
  <<"d", "a", "s", "h", "b", "o", "a", "r", "d", "_", "u", "p", "d", "a", "t", "e">>
dashboard_delete ==
  <<"d", "a", "s", "h", "b", "o", "a", "r", "d", "_", "d", "e", "l", "e", "t", "e">>
proxmox_dashboard_create_single ==
  <<"p", "r", "o", "x", "m", "o", "x", "_", "d", "a", "s", "h", "b", "o", "a", "r", "d", "_", "c", "r", "e", "a", "t", "e", "_", "s", "i", "n", "g", "l", "e">>
proxmox_dashboard_create_dual ==
  <<"p", "r", "o", "x", "m", "o", "x", "_", "d", "a", "s", "h", "b", "o", "a", "r", "d", "_", "c", "r", "e", "a", "t", "e", "_", "d", "u", "a", "l">>
proxmox_dashboard_add_widgets ==
  <<"p", "r", "o", "x", "m", "o", "x", "_", "d", "a", "s", "h", "b", "o", "a", "r", "d", "_", "a", "d", "d", "_", "w", "i", "d", "g", "e", "t", "s">>
proxmox_hosts_analyze ==
  <<"p", "r", "o", "x", "m", "o", "x", "_", "h", "o", "s", "t", "s", "_", "a", "n", "a", "l", "y", "z", "e">>
api_connectivity_check ==
  <<"a", "p", "i", "_", "c", "o", "n", "n", "e", "c", "t", "i", "v", "i", "t", "y", "_", "c", "h", "e", "c", "k">>
api_version_get ==
  <<"a", "p", "i", "_", "v", "e", "r", "s", "i", "o", "n", "_", "g", "e", "t">>
apiinfo_version ==
  <<"a", "p", "i", "i", "n", "f", "o", "_", "v", "e", "r", "s", "i", "o", "n">>
verify_connectivity ==
  <<"v", "e", "r", "i", "f", "y", "_", "c", "o", "n", "n", "e", "c", "t", "i", "v", "i", "t", "y">>
iops_item_create ==
  <<"i", "o", "p", "s", "_", "i", "t", "e", "m", "_", "c", "r", "e", "a", "t", "e">>
disk_devices_discover ==
  <<"d", "i", "s", "k", "_", "d", "e", "v", "i", "c", "e", "s", "_", "d", "i", "s", "c", "o", "v", "e", "r">>
iops_dashboard_create ==
  <<"i", "o", "p", "s", "_", "d", "a", "s", "h", "b", "o", "a", "r", "d", "_", "c", "r", "e", "a", "t", "e">>
no_such_tool ==
  <<"n", "o", "_", "s", "u", "c", "h", "_", "t", "o", "o", "l">>

\* the names a tools/call request may carry: both catalogs and an unknown one
ToolNames ==
  { host_get,
    host_create,
    hostgroup_get,
    item_get,
    item_create,
    item_delete,
    trigger_get,
    problem_get,
    history_get,
    dashboard_get,
    dashboard_create,
    dashboard_update,
    dashboard_delete,
    proxmox_dashboard_create_single,
    proxmox_dashboard_create_dual,
    proxmox_dashboard_add_widgets,
    proxmox_hosts_analyze,
    api_connectivity_check,
    api_version_get,
    apiinfo_version,
    verify_connectivity,
    iops_item_create,
    disk_devices_discover,
    iops_dashboard_create,
    no_such_tool }

\* String.prototype.includes on character sequences
Includes(s, sub) ==
  \E i \in 0..(Len(s) - Len(sub)) : \A j \in 1..Len(sub) : s[i + j] = sub[j]

\* the substrings that make an operation count as reading
ReadWords == { <<"g", "e", "t">>, <<"l", "i", "s", "t">>, <<"e", "x", "p", "o", "r", "t">> }

\* validateReadOnly, lines 57-61 and 1085-1089: TRUE when it throws
ValidateReadOnlyThrows(flag, operation) ==
  flag /\ ~ \E op \in ReadWords : Includes(operation, op)

\* ---------------------------------------------------------- handler plans
\* What a case of the switch does after the name matched: the operation it
\* passes to validateReadOnly (<<>> if it does not call it), what it does when
\* required arguments are missing ("none": no check, "throw", "help": answer
\* with a help text), whether its helper catches errors and returns them as a
\* result, and the calls it makes on the client, in order.
Plan(validate, args, catches, steps) ==
  [validate |-> validate, args |-> args, catches |-> catches, steps |-> steps]

NoPlan == Plan(<<>>, "unknown", FALSE, <<>>)

\* steps: a client method that maps to one request(method); verifyConnectivity;
\* "login if not authenticated"; a throw that the data always triggers
Step(op, a, need, soft, opt) ==
  [op |-> op, a |-> a, need |-> need, soft |-> soft, opt |-> opt]
Req(method) == Step("request", method, "", FALSE, FALSE)
Verify(testAuth, need) == Step("verify", testAuth, need, FALSE, FALSE)
LoginIfNeeded == Step("login", "", "", FALSE, FALSE)
Throw == Step("throw", "", "", FALSE, FALSE)

\* MCPStreamServer, lines 488-765, with the helpers of lines 64-175
StreamPlan(name) ==
  CASE name = host_get -> Plan(<<>>, "none", FALSE, <<Req("host.get")>>)
    [] name = host_create -> Plan(host_create, "none", FALSE, <<Req("host.create")>>)
    [] name = item_get -> Plan(<<>>, "none", FALSE, <<Req("item.get")>>)
    [] name = item_create -> Plan(item_create, "none", FALSE, <<Req("item.create")>>)
    [] name = dashboard_get -> Plan(<<>>, "none", FALSE, <<Req("dashboard.get")>>)
    [] name = dashboard_create ->
         Plan(dashboard_create, "none", FALSE, <<Req("dashboard.create")>>)
    [] name = proxmox_dashboard_create_single ->
         Plan(proxmox_dashboard_create_single, "throw", FALSE, <<>>)
    [] name = api_connectivity_check -> Plan(<<>>, "none", FALSE, <<>>)
    [] name = api_version_get -> Plan(<<>>, "none", FALSE, <<Req("apiinfo.version")>>)
    [] name = hostgroup_get -> Plan(<<>>, "none", FALSE, <<Req("hostgroup.get")>>)
    [] name = item_delete -> Plan(item_delete, "throw", FALSE, <<Req("item.delete")>>)
    [] name = trigger_get -> Plan(<<>>, "none", FALSE, <<Req("trigger.get")>>)
    [] name = problem_get -> Plan(<<>>, "none", FALSE, <<Req("problem.get")>>)
    [] name = history_get -> Plan(<<>>, "none", FALSE, <<Req("history.get")>>)
    [] name = dashboard_update ->
         Plan(dashboard_update, "none", FALSE, <<Req("dashboard.update")>>)
    [] name = dashboard_delete ->
         Plan(dashboard_delete, "throw", FALSE, <<Req("dashboard.delete")>>)
    [] name = proxmox_dashboard_create_dual ->
         Plan(proxmox_dashboard_create_dual, "throw", FALSE, <<>>)
    [] name = proxmox_dashboard_add_widgets ->
         Plan(proxmox_dashboard_add_widgets, "throw", FALSE, <<>>)
    [] name = proxmox_hosts_analyze -> Plan(<<>>, "none", FALSE, <<Req("host.get")>>)
    [] name = iops_item_create -> Plan(iops_item_create, "throw", FALSE, <<>>)
    [] name = disk_devices_discover -> Plan(<<>>, "none", FALSE, <<Req("host.get")>>)
    [] name = iops_dashboard_create -> Plan(iops_dashboard_create, "throw", FALSE, <<>>)
    [] name = verify_connectivity -> Plan(<<>>, "none", TRUE, <<Req("apiinfo.version")>>)
    [] OTHER -> NoPlan

\* stdio server, lines 1531-2082, with the helpers of lines 2099-2599.
\* client.hostGet returns the JSON-RPC response object, never an array, so
\* "hosts" is the one-element array [response] in the Proxmox helpers: the
\* single-node helper never takes its "not found" branch and the dual-node
\* helper always takes it (hosts.length < 2). createIOPSItems creates the
\* items one by one, catching the error of each; one item is modelled.
StdioPlan(name) ==
  CASE name = host_get -> Plan(<<>>, "none", FALSE, <<Req("host.get")>>)
    [] name = host_create -> Plan(host_create, "throw", FALSE, <<Req("host.create")>>)
    [] name = hostgroup_get -> Plan(<<>>, "none", FALSE, <<Req("hostgroup.get")>>)
    [] name = item_get -> Plan(<<>>, "none", FALSE, <<Req("item.get")>>)
    [] name = item_create ->
         Plan(item_create, "help", FALSE,
              <<Step("request", "host.get", "data", FALSE, TRUE), Req("item.create")>>)
    [] name = item_delete -> Plan(item_delete, "throw", FALSE, <<Req("item.delete")>>)
    [] name = trigger_get -> Plan(<<>>, "none", FALSE, <<Req("trigger.get")>>)
    [] name = problem_get -> Plan(<<>>, "none", FALSE, <<Req("problem.get")>>)
    [] name = history_get -> Plan(<<>>, "throw", FALSE, <<Req("history.get")>>)
    [] name = dashboard_get -> Plan(<<>>, "none", FALSE, <<Req("dashboard.get")>>)
    [] name = dashboard_create ->
         Plan(dashboard_create, "throw", FALSE,
              <<Verify("noauth", "connected"), LoginIfNeeded, Req("dashboard.create")>>)
    [] name = dashboard_update ->
         Plan(dashboard_update, "throw", FALSE, <<Req("dashboard.update")>>)
    [] name = dashboard_delete ->
         Plan(dashboard_delete, "throw", FALSE, <<Req("dashboard.delete")>>)
    [] name = proxmox_dashboard_create_single ->
         Plan(proxmox_dashboard_create_single, "throw", TRUE,
              <<Verify("auth", "authenticated"), Req("host.get"), Req("item.get"),
                Req("dashboard.create")>>)
    [] name = proxmox_dashboard_create_dual ->
         Plan(proxmox_dashboard_create_dual, "throw", TRUE,
              <<Verify("auth", "authenticated"), Req("host.get"), Throw>>)
    [] name = proxmox_dashboard_add_widgets ->
         Plan(proxmox_dashboard_add_widgets, "throw", TRUE,
              <<Req("dashboard.get"), Req("dashboard.update")>>)
    [] name = proxmox_hosts_analyze -> Plan(<<>>, "none", TRUE, <<Req("host.get")>>)
    [] name = apiinfo_version -> Plan(<<>>, "none", FALSE, <<Req("apiinfo.version")>>)
    [] name = verify_connectivity -> Plan(<<>>, "none", FALSE, <<Verify("input", "")>>)
    [] name = iops_item_create ->
         Plan(iops_item_create, "throw", FALSE,
              <<Step("request", "item.create", "", TRUE, FALSE)>>)
    [] name = disk_devices_discover ->
         Plan(<<>>, "throw", FALSE, <<Req("host.get"), Req("item.get")>>)
    [] name = iops_dashboard_create ->
         Plan(iops_dashboard_create, "throw", FALSE,
              <<Verify("noauth", "connected"), LoginIfNeeded, Req("host.get"),
                Req("dashboard.create")>>)
    [] OTHER -> NoPlan

PlanOf(name) == IF program = "stream" THEN StreamPlan(name) ELSE StdioPlan(name)

\* ------------------------------------------------------------ ZabbixClient
\* what the upstream can answer to one HTTP request: a result, a result that
\* lacks what the caller looks for, a JSON-RPC error that is not / that is
\* about authorization, and a transport error (axios): a connection that
\* breaks, or a host name that does not resolve
Responses ==
  {"ok", "lacking", "apiError", "apiAuthError", "httpError", "httpErrorHost"}

\* error.message of the answers that are errors; for the unresolved host,
\* the message Node gives when ZABBIX_URL names the host zabbix-auth.lan
MsgInvalidParams ==
  <<"I", "n", "v", "a", "l", "i", "d", " ", "p", "a", "r", "a", "m",
    "s", ".">>
MsgNotAuthorized ==
  <<"N", "o", "t", " ", "a", "u", "t", "h", "o", "r", "i", "z", "e",
    "d", ".">>
MsgNetworkError ==
  <<"N", "e", "t", "w", "o", "r", "k", " ", "E", "r", "r", "o", "r">>
MsgHostNotFound ==
  <<"g", "e", "t", "a", "d", "d", "r", "i", "n", "f", "o", " ", "E",
    "N", "O", "T", "F", "O", "U", "N", "D", " ", "z", "a", "b", "b",
    "i", "x", "-", "a", "u", "t", "h", ".", "l", "a", "n">>

ErrorMessage(resp) ==
  CASE resp = "apiError" -> MsgInvalidParams
    [] resp = "apiAuthError" -> MsgNotAuthorized
    [] resp = "httpError" -> MsgNetworkError
    [] resp = "httpErrorHost" -> MsgHostNotFound
    [] OTHER -> <<>>

\* request(), lines 212 and 232-233: error.message.includes('auth')
MentionsAuth(message) == Includes(message, <<"a", "u", "t", "h">>)

\* the answers whose error message contains 'auth'
AuthErrors == {resp \in Responses : MentionsAuth(ErrorMessage(resp))}

Top(m) == m.c.stack[Len(m.c.stack)]

\* return (k = "ok") or throw (k = "err") to the caller
Ret(m, k, v) ==
  [m EXCEPT !.c.stack = SubSeq(@, 1, Len(@) - 1), !.c.sig = Sig(k, v)]

\* the running frame moves to pc and calls the procedure of frame fr
Invoke(m, pc, fr) ==
  [m EXCEPT !.c.stack = Append([@ EXCEPT ![Len(@)].pc = pc], fr),
            !.c.sig = Sig("enter", "")]

\* request(), lines 191-202: how the token travels with this attempt
AuthStyle(token, method, authAttempts) ==
  IF token # NoToken /\ method \notin {"user.login", "apiinfo.version"}
    THEN IF authAttempts = 0 THEN "bearer" ELSE "legacy"
    ELSE "none"

\* request(), lines 186-203: one pass of the loop up to client.post
RequestPosts(m) ==
  [m EXCEPT !.c.sent = Append(@, [method |-> Top(m).a,
                                  style |-> AuthStyle(m.token, Top(m).a, Top(m).pc)]),
            !.c.sig = Sig("wait", "")]

\* request(), lines 204-247: the answer to the post. An error whose message
\* contains 'auth' makes the first attempt loop (lines 212-216 and 232-237);
\* every other error is thrown, its message kept inside the new one.
RequestReceives(m, resp) ==
  IF resp \in {"ok", "lacking"} THEN Ret(m, "ok", resp)
  ELSE IF resp \in AuthErrors /\ Top(m).pc = 0
    THEN [m EXCEPT !.c.stack = [@ EXCEPT ![Len(@)].pc = 1], !.c.sig = Sig("enter", "")]
  ELSE Ret(m, "err", IF resp \in AuthErrors THEN "upstreamAuth" ELSE "upstream")

\* verifyConnectivity, lines 158-166: the outer catch returns
\* {version: 'unknown', connected: false, error}
VersionFailureThrows(m) == Ret(m, "err", "connect")
VersionFailure(m) == Ret(m, "ok", "notconnected")

\* verifyConnectivity(testAuth), lines 112-167
VerifyConnectivity(m) ==
  LET fr == Top(m) IN
  IF m.c.sig.k = "enter"
    THEN Invoke(m, "version", Frame("request", "apiinfo.version", 0))
  ELSE IF fr.pc = "version"
    THEN IF m.c.sig.k = "err" THEN VersionFailure(m)
         ELSE IF fr.a # "auth" THEN Ret(m, "ok", "connected")
         ELSE IF m.token # NoToken
           THEN Invoke(m, "auth", Frame("request", "user.get", 0))
         ELSE Invoke(m, "auth", Frame("login", "", "start"))
  ELSE IF m.c.sig.k = "err" THEN Ret(m, "ok", "notauthenticated")
  ELSE Ret(m, "ok", "authenticated")

\* login(), lines 26-90, for a client configured with user and password (no
\* server of this repository passes a token: lines 46-50 and 1074-1080)
Login(m) ==
  LET fr == Top(m) IN
  IF m.c.sig.k = "enter"
    THEN Invoke(m, "verify", Frame("verify", "noauth", "start"))
  ELSE IF fr.pc = "verify"
    THEN IF m.c.sig.v = "notconnected" THEN Ret(m, "err", "connect")
         ELSE Invoke(m, "userlogin", Frame("request", "user.login", 0))
  ELSE IF fr.pc = "userlogin"
    THEN IF m.c.sig.k = "err" THEN Ret(m, "err", m.c.sig.v)
         ELSE [Invoke(m, "hostget", Frame("request", "host.get", 0))
                 EXCEPT !.token = SessionToken]
  ELSE IF m.c.sig.k = "err" THEN Ret(m, "err", m.c.sig.v)
  ELSE Ret(m, "ok", "")

\* ------------------------------------------------- CallToolRequestSchema
\* what the catch block of the handler does with an error: MCPStreamServer
\* throws a new Error out of the handler (line 768), the stdio server returns
\* a result with isError set (lines 2083-2094)
Rethrows(prog) == prog = "stream"

\* the handler is left: with a result, or with the kind of error it reports
Finish(m, out) ==
  [m EXCEPT !.c.stack = <<>>, !.c.sig = Sig("done", out),
            !.c.thrown = (out # "result" /\ Rethrows(program))]

\* an error inside the case: a helper with its own try/catch turns it into a
\* result; otherwise it reaches the catch of the handler (lines 766-769,
\* 2083-2094)
Fail(m, v) == IF PlanOf(m.c.tool).catches THEN Finish(m, "result") ELSE Finish(m, v)

\* the handler at step i of its plan
Advance(m, i) ==
  LET plan == PlanOf(m.c.tool)
      skipped == [m EXCEPT !.c.stack = [@ EXCEPT ![Len(@)].pc = i],
                           !.c.sig = Sig("ok", "skipped")]
  IN  IF i > Len(plan.steps) THEN Finish(m, "result")
      ELSE LET step == plan.steps[i] IN
           CASE step.op = "request" ->
                  IF step.opt /\ ~m.c.variant THEN skipped
                  ELSE Invoke(m, i, Frame("request", step.a, 0))
             [] step.op = "verify" ->
                  Invoke(m, i, Frame("verify",
                                     IF step.a = "auth" \/ (step.a = "input" /\ m.c.variant)
                                       THEN "auth" ELSE "noauth",
                                     "start"))
             [] step.op = "login" ->
                  IF m.token = NoToken THEN Invoke(m, i, Frame("login", "", "start"))
                  ELSE skipped
             [] OTHER -> Fail(m, "data")

\* the value a step got back does not let the case go on
Lacks(step, v) ==
  \/ step.need = "data" /\ v = "lacking"
  \/ step.need = "connected" /\ v = "notconnected"
  \/ step.need = "authenticated" /\ v \in {"notconnected", "notauthenticated"}

\* the switch on the tool name: unknown name, validateReadOnly, the check of
\* the required arguments, then the first call on the client
Switch(m) ==
  LET plan == PlanOf(m.c.tool) IN
  IF plan = NoPlan THEN Finish(m, "unknown")
  ELSE IF plan.validate # <<>> /\ ValidateReadOnlyThrows(readOnly, plan.validate)
    THEN Finish(m, "policy")
  ELSE IF plan.args # "none" /\ ~m.c.hasArgs
    THEN Finish(m, IF plan.args = "help" THEN "result" ELSE "args")
  ELSE Advance(m, 1)

\* the handler: MCPStreamServer first logs in when the shared client has no
\* token (lines 483-486), the stdio server goes straight to the switch
Handler(m) ==
  LET fr == Top(m) IN
  IF m.c.sig.k = "enter"
    THEN IF program = "stream" /\ m.token = NoToken
           THEN Invoke(m, 0, Frame("login", "", "start"))
           ELSE Switch(m)
  ELSE IF fr.pc = 0
    THEN IF m.c.sig.k = "err" THEN Finish(m, m.c.sig.v) ELSE Switch(m)
  ELSE LET step == PlanOf(m.c.tool).steps[fr.pc] IN
       IF m.c.sig.k = "err"
         THEN IF step.soft THEN Advance(m, fr.pc + 1) ELSE Fail(m, m.c.sig.v)
       ELSE IF Lacks(step, m.c.sig.v) THEN Fail(m, "data")
       ELSE Advance(m, fr.pc + 1)

\* the code between two awaits on the upstream: run until the next post or
\* until the handler has returned
ExecClient(m) ==
  CASE Top(m).f = "request" -> RequestPosts(m)
    [] Top(m).f = "verify" -> VerifyConnectivity(m)
    [] Top(m).f = "login" -> Login(m)

Exec(m) == IF Top(m).f = "handler" THEN Handler(m) ELSE ExecClient(m)

RECURSIVE Run(_)
Run(m) == IF m.c.sig.k \in {"wait", "done"} THEN m ELSE Run(Exec(m))

\* the same, but only until the frame at depth d of the stack has returned
\* or thrown to its caller
RECURSIVE RunToDepth(_, _)
RunToDepth(m, d) ==
  IF m.c.sig.k \in {"wait", "done"} \/ Len(m.c.stack) < d THEN m
  ELSE RunToDepth(ExecClient(m), d)

\* main() of the stdio server, lines 2609-2623: after verifyConnectivity()
\* has reported the upstream connected, verifyConnectivity(true) is awaited
\* on the client, which has not logged in yet
StartupCheck ==
  RunToDepth([c |-> [IdleCall EXCEPT !.stack = <<Frame("verify", "auth", "start")>>,
                                     !.sig = Sig("enter", "")],
              token |-> NoToken], 1)

\* every point the check of main() can be at, whatever the upstream answers
\* to its requests: awaiting an answer, or handed back to main()
RECURSIVE StartupReach(_)
StartupReach(S) ==
  LET T == S \cup {RunToDepth(RequestReceives(m, resp), 1) :
                     m \in {x \in S : x.c.sig.k = "wait"},
                     resp \in Responses \ {"lacking"}}
  IN  IF T = S THEN S ELSE StartupReach(T)

StartupChecks == StartupReach({StartupCheck})

\* the handler step that awaits the answer, when the handler itself posted
AwaitingStep(call) ==
  IF Len(call.stack) = 2 /\ call.stack[1].pc > 0
    THEN PlanOf(call.tool).steps[call.stack[1].pc]
    ELSE Req("")

\* the handler is entered for a request received by the server of a session
\* (NoId: the stdio server) and runs up to its first await on the upstream
StartCall(name, hasArgs, variant, session, server, token) ==
  Run([c |-> [IdleCall EXCEPT !.tool = name, !.hasArgs = hasArgs, !.variant = variant,
                              !.stack = <<Frame("handler", "", -1)>>,
                              !.sig = Sig("enter", ""),
                              !.session = session, !.server = server],
       token |-> token])

\* a tools/call request arrives in slot c
CallTool(c, name, hasArgs, variant) ==
  /\ calls[c].sig.k = "idle"
  /\ LET m == StartCall(name, hasArgs, variant, NoId, NoId, authToken)
     IN  /\ calls' = [calls EXCEPT ![c] = m.c]
         /\ authToken' = m.token
  /\ UNCHANGED <<processVars, readOnly, program, last, streamVars, sseVars>>

\* the upstream answers the request the call in slot c is waiting for
Respond(c, resp) ==
  /\ calls[c].sig.k = "wait"
  /\ resp = "lacking" => AwaitingStep(calls[c]).need = "data"
  /\ LET m == Run(RequestReceives([c |-> calls[c], token |-> authToken], resp))
     IN  /\ calls' = [calls EXCEPT ![c] = m.c]
         /\ authToken' = m.token
  /\ UNCHANGED <<processVars, readOnly, program, last, streamVars, sseVars>>

\* the answer of a finished call has gone out; its slot is free again
Collect(c) ==
  /\ calls[c].sig.k = "done"
  /\ calls' = [calls EXCEPT ![c] = IdleCall]
  /\ UNCHANGED <<processVars, readOnly, program, authToken, last, streamVars, sseVars>>

NextTools ==
  \/ \E c \in 1..MaxCalls, name \in ToolNames, a \in BOOLEAN, v \in BOOLEAN :
        CallTool(c, name, a, v)
  \/ \E c \in 1..MaxCalls, resp \in Responses : Respond(c, resp)
  \/ \E c \in 1..MaxCalls : Collect(c)

\* a server process right after start-up: READ_ONLY is read from the
\* environment; the stdio server only runs once main() has seen the client
\* authenticated (lines 2609-2623), MCPStreamServer starts without a login
InitTools ==
  /\ InitStream /\ InitSSE /\ InitProcessRunning
  /\ program \in {"stream", "stdio"}
  /\ env \in EnvValues
  /\ readOnly = ReadOnlyFromEnv(env)
  /\ authToken = IF program = "stdio" THEN SessionToken ELSE NoToken
  /\ calls = [c \in Slots |-> IdleCall]

SpecTools == InitTools /\ [][NextTools]_vars

\* ------------------------------------------- concurrent tool calls (SpecLogin)
\* MCPStreamServer after start-up, READ_ONLY unset: every session's handler
\* uses the one ZabbixClient of the process (line 50), so calls dispatched on
\* different sessions, or several on one session, interleave at every await.
ConcurrentNames == {host_get, host_create}

NextLogin ==
  \/ \E c \in 1..MaxConcurrent, name \in ConcurrentNames : CallTool(c, name, TRUE, FALSE)
  \/ \E c \in 1..MaxConcurrent, resp \in Responses : Respond(c, resp)
  \/ \E c \in 1..MaxConcurrent : Collect(c)

SpecLogin == Init /\ [][NextLogin]_vars

\* ------------------------------------ tool calls dispatched on sessions (SpecCalls)
\* POST /message carrying a tools/call request: the session is resolved as in
\* Dispatch, transport.handlePostMessage hands the message to the session's
\* server, whose CallToolRequestSchema handler runs up to its first await,
\* and the request is answered 202. The slot number stands for the JSON-RPC
\* id of the request.
DispatchCall(query, header, c, name, hasArgs) ==
  LET requestedSessionId == RequestedSessionId(query, header)
      actualSessionId == FindSession(sessions, requestedSessionId)
  IN  /\ calls[c].sig.k = "idle"
      /\ IF requestedSessionId = NoId
           THEN /\ last' = DispatchReply("dispatch", query, header, "ok", 400)
                /\ UNCHANGED <<sessions, conns, calls, authToken>>
         ELSE IF actualSessionId = NoId
           THEN /\ last' = DispatchReply("dispatch", query, header, "ok", 404)
                /\ UNCHANGED <<sessions, conns, calls, authToken>>
         ELSE LET m == StartCall(name, hasArgs, FALSE, actualSessionId,
                                 sessions[actualSessionId].server, authToken)
              IN  /\ sessions' = Touch(sessions, actualSessionId, now)
                  /\ conns' = [conns EXCEPT ![actualSessionId].routedAt = now]
                  /\ calls' = [calls EXCEPT ![c] = m.c]
                  /\ authToken' = m.token
                  /\ last' = DispatchReply("dispatch", query, header, "ok", 202)
      /\ UNCHANGED <<nextId, now, processVars, readOnly, program, sseVars>>

\* the handler of the call in slot c has returned or thrown: the server that
\* received the request sends the response, result or error, with the id of
\* the request on its transport; nothing in the handler (lines 479-770)
\* refers to this.sessions
SendResult(c) ==
  /\ calls[c].sig.k = "done" /\ calls[c].server # NoId
  /\ LET to == BoundTransport(conns, calls[c].server)
     IN  last' = [op |-> "result", q |-> calls[c].session, status |-> 0,
                  to |-> IF Writable(conns, to) THEN to ELSE NoId, id |-> c]
  /\ calls' = [calls EXCEPT ![c] = IdleCall]
  /\ UNCHANGED <<streamVars, processVars, readOnly, program, authToken, sseVars>>

\* the upstream answers a call or fails it
CallResponses == {"ok", "httpError"}

NextCalls ==
  \/ OpenBegin
  \/ \E k \in DOMAIN conns : ConnectStarts(k)
  \/ \E k \in DOMAIN conns : OpenAnnounce(k)
  \/ \E k \in DOMAIN conns : ClientClose(k, FALSE)
  \/ \E id \in DOMAIN conns : Delete(id, FALSE)
  \/ \E id \in PresentableIds(conns), c \in 1..MaxConcurrent,
         name \in ConcurrentNames : DispatchCall(id, NoId, c, name, TRUE)
  \/ \E c \in 1..MaxConcurrent, resp \in CallResponses : Respond(c, resp)
  \/ \E c \in 1..MaxConcurrent : SendResult(c)

\* MCPStreamServer, READ_ONLY unset, after a first tool call has logged the
\* shared client in
InitCalls ==
  /\ InitStream /\ InitSSE /\ InitProcessRunning
  /\ env = ""
  /\ program = "stream"
  /\ readOnly = ReadOnlyFromEnv(env)
  /\ authToken = SessionToken
  /\ calls = [c \in Slots |-> IdleCall]

SpecCalls == InitCalls /\ [][NextCalls]_vars


\* ------------------------------- doubly addressed requests (SpecRouting)
\* MCPStreamServer with its sessions opened, closed and addressed by requests
\* that name one identifier in the query parameter and another in the
\* X-Session-ID header; the sweep is left out
NextRouting ==
  \/ OpenBegin
  \/ \E k \in DOMAIN conns : ConnectStarts(k)
  \/ \E k \in DOMAIN conns : OpenAnnounce(k)
  \/ \E k \in DOMAIN conns : ClientClose(k, FALSE)
  \/ \E id \in DOMAIN conns : Delete(id, FALSE)
  \/ \E a \in DoubleAddressings(PresentableIds(conns)), p \in Payloads :
        Dispatch(a[1], a[2], p, FALSE)
  \/ now < RoutingMaxTime /\ Tick

SpecRouting == Init /\ [][NextRouting]_vars

\* ------------------------------------------- the server process (SpecProcess)
\* how the process is started: http-stream-server.ts run directly (lines
\* 983-987) or through the HTTP entry point (lines 988-1044)
Entries == {"direct", "http"}

\* a process that has not yet run its constructor, with what it will find:
\* the port free or taken, the Zabbix API reachable or not
InitProcess ==
  /\ InitStream /\ InitSSE /\ InitToolsDefault
  /\ proc \in {[Running EXCEPT !.state = "new", !.entry = e, !.port = p,
                               !.upstream = u, !.timer = FALSE, !.listener = FALSE] :
                 e \in Entries, p \in {"free", "busy"}, u \in {"up", "down"}}

\* constructor, lines 33-54: the client object is built without any request
\* to the Zabbix API, the routes are set up and startSessionCleanup() (line
\* 53) starts the sweep timer
Construct ==
  /\ proc.state = "new"
  /\ proc' = [proc EXCEPT !.state = "constructed", !.timer = TRUE]
  /\ last' = Reply("construct", NoId, 0)
  /\ UNCHANGED <<streamVars, sseVars, env, readOnly, program, authToken, calls>>

\* what a failed bind does depends on the version of express, which src/
\* does not fix: the http.Server emits 'error' with no listener attached and
\* the process dies of the uncaught exception (exit code 1), or app.listen
\* passes the error to the callback of lines 944-952, which ignores its
\* argument and resolves the promise
BindFailures == {"crash", "callback"}

\* start(), lines 942-954: app.listen; the promise has no reject path
Listen(failure) ==
  /\ proc.state = "constructed"
  /\ proc' = IF proc.port = "free"
               THEN [proc EXCEPT !.state = "started", !.listener = TRUE]
             ELSE IF failure = "crash"
               THEN [proc EXCEPT !.state = "exited", !.exit = 1, !.timer = FALSE]
             ELSE [proc EXCEPT !.state = "started"]
  /\ last' = Reply("listen", NoId, 0)
  /\ UNCHANGED <<streamVars, sseVars, env, readOnly, program, authToken, calls>>

\* GET /health, lines 895-910
Health ==
  /\ proc.listener
  /\ last' = [op |-> "health", q |-> NoId, status |-> 200,
              activeSessions |-> Cardinality(DOMAIN sessions),
              zabbixConnected |-> authToken # NoToken,
              readOnly |-> readOnly]
  /\ UNCHANGED <<streamVars, sseVars, toolVars>>

\* SIGINT. Listeners run in the order they were registered. The entry point
\* registers its handler when the module is evaluated (lines 1028-1031),
\* before main() calls start(), and that handler calls process.exit(0): the
\* handler registered by start() (lines 956-978) never runs. Run directly,
\* the handler of start() clears the interval, puts every session through
\* cleanupSession (server.close() throwing for the keys in F) and closes the
\* listener.
Sigint(F) ==
  /\ proc.state = "started"
  /\ F \subseteq DOMAIN sessions
  /\ IF proc.entry = "http"
       THEN /\ F = {}
            /\ proc' = [proc EXCEPT !.state = "exited", !.exit = 0,
                                    !.timer = FALSE, !.listener = FALSE]
            /\ UNCHANGED <<sessions, conns>>
       ELSE /\ proc' = [proc EXCEPT !.state = "closing", !.cleared = TRUE,
                                    !.timer = FALSE, !.listener = FALSE]
            /\ sessions' = CleanupTable(sessions, DOMAIN sessions, F)
            /\ conns' = CleanupConns(sessions, conns, DOMAIN sessions, F, "shutdown")
  /\ last' = Reply("sigint", NoId, 0)
  /\ UNCHANGED <<nextId, now, sseVars, env, readOnly, program, authToken, calls>>

\* lines 969-972: the callback of expressServer.close runs once no
\* connection is left open, and exits
ListenerClosed ==
  /\ proc.state = "closing"
  /\ \A k \in DOMAIN conns : conns[k].stream # "open"
  /\ proc' = [proc EXCEPT !.state = "exited", !.exit = 0]
  /\ last' = Reply("exit", NoId, 0)
  /\ UNCHANGED <<streamVars, sseVars, env, readOnly, program, authToken, calls>>

NextProcess ==
  \/ Construct
  \/ \E f \in BindFailures : Listen(f)
  \/ Health
  \/ proc.listener /\ OpenBegin
  \/ \E k \in DOMAIN conns : proc.state # "exited" /\ ConnectStarts(k)
  \/ \E k \in DOMAIN conns : proc.state # "exited" /\ OpenAnnounce(k)
  \/ \E k \in DOMAIN conns : proc.state # "exited" /\ ClientClose(k, FALSE)
  \/ \E id \in PresentableIds(conns) \ {NoId} : proc.listener /\ Delete(id, FALSE)
  \/ \E F \in SUBSET DOMAIN sessions : Sigint(F)
  \/ ListenerClosed

SpecProcess == InitProcess /\ [][NextProcess]_vars

\* =================================================================== claims
\* the connection an identifier belongs to, as table key or as the
\* transport's own sessionId; NoId if the identifier was never issued
OwnerOf(id) ==
  LET M == {k \in DOMAIN conns : k = id \/ conns[k].tid = id}
  IN  IF M = {} THEN NoId ELSE Min(M)

NeverIssued(id) == id # NoId /\ OwnerOf(id) = NoId
TornDown(id) == OwnerOf(id) # NoId /\ conns[OwnerOf(id)].how # "none"
StreamClosed(id) == OwnerOf(id) # NoId /\ conns[OwnerOf(id)].stream = "closed"
Routed == last.op = "dispatch" /\ last.status \in {202, 500}

\* the tools the read-only policy is meant to block
MutatingTools ==
  { host_create, item_create, item_delete, dashboard_create, dashboard_update,
    dashboard_delete, proxmox_dashboard_create_single, proxmox_dashboard_create_dual,
    iops_item_create, iops_dashboard_create }

\* the API methods that create, update or delete
MutatingMethods ==
  { "host.create", "item.create", "item.delete",
    "dashboard.create", "dashboard.update", "dashboard.delete" }

\* C1: no dispatch is routed to a session whose underlying stream has
\* already closed.
C1_NoDispatchToClosedStream ==
  Routed => conns[FindSession(sessions, last.q)].stream = "open"

\* C2: with read-only mode on, a call of a mutating tool on MCPStreamServer
\* causes no request to the upstream and is answered with the policy error,
\* whether or not the shared client is authenticated.
C2_MutatingToolSendsNothing ==
  \A c \in 1..MaxCalls :
    (program = "stream" /\ readOnly /\ calls[c].tool \in MutatingTools)
      => /\ calls[c].sent = <<>>
         /\ calls[c].sig.k = "done" => calls[c].sig.v = "policy"

\* C3: with read-only mode on, no tool call, whatever its name, sends a
\* create, update or delete request to the Zabbix API.
C3_ReadOnlySendsNoMutation ==
  readOnly =>
    \A c \in 1..MaxCalls : \A i \in 1..Len(calls[c].sent) :
      calls[c].sent[i].method \notin MutatingMethods

\* C4: when opening the stream fails (server.connect rejects or the write of
\* the announcement throws), no entry for that request remains in the table.
C4_FailedOpenLeavesNoEntry ==
  last.op = "openfail" => last.q \notin DOMAIN sessions

\* C5: when setupMCPHandlers throws in MCPSSEServer's stream-open handler, the
\* request is answered with an error and no entry for it is left in the
\* sessions map or in the servers list.
C5_FailedSetupLeavesNothing ==
  last.op = "ssesetupfail" =>
    /\ last.status = 500
    /\ last.q \notin DOMAIN sseSessions
    /\ last.q \notin sseServers

\* C6: a dispatch issued right after a successful stream-open, carrying the
\* announced session id and a well-formed message, is answered neither 400
\* nor 404 and is handed to the session that was announced.
C6_AnnouncedIdResolves ==
  [][(last.op = "open" /\ last.status = 200
        /\ last'.op = "dispatch" /\ last'.q = last.q /\ last'.payload = "ok")
      => (last'.status \in {202, 500}
            /\ last.q \in DOMAIN sessions'
            /\ conns'[last.q].routedAt = now
            /\ \A k \in DOMAIN conns \ {last.q} : conns'[k].routedAt = conns[k].routedAt)]_vars

C6_Witness ==
  /\ Routed /\ last.q \in DOMAIN sessions
  /\ conns[last.q].phase = "open" /\ conns[last.q].routedAt = now

\* C7: a dispatch whose session id was never issued, or belongs to a session
\* already closed (by explicit close, by the client's disconnect or by
\* eviction), is answered 404 and leaves the session table, every
\* lastActivity included, as it was.
C7_UnknownIdNotFound ==
  [][(last'.op = "dispatch" /\ last' # last
        /\ (NeverIssued(last'.q) \/ TornDown(last'.q) \/ StreamClosed(last'.q)))
      => (last'.status = 404 /\ sessions' = sessions)]_vars

\* C8: after a close of a session id by DELETE, by the close or error hook
\* or by the sweep, the first time as well as when it is repeated, the table
\* holds no entry for that id and the request was answered (200 or 404).
C8_CloseIsIdempotent ==
  /\ last.op \in {"delete", "close", "error"} => last.q \notin DOMAIN sessions
  /\ last.op = "delete" => last.status \in {200, 404}
  /\ \A k \in DOMAIN conns : conns[k].how = "sweep" => k \notin DOMAIN sessions

C8_Witness ==
  \/ /\ last.op = "delete" /\ last.status = 404 /\ last.q \in DOMAIN conns
     /\ conns[last.q].how \in {"hook", "sweep", "delete"}
     /\ DOMAIN sessions # {}
  \/ /\ last.op = "close" /\ conns[last.q].how \in {"delete", "sweep"}
     /\ DOMAIN sessions # {}

\* C9: a sweep removes every session whose lastActivity is older than the
\* idle timeout, and a dispatch addressed to an evicted session is answered
\* 404.
C9_SweepEvictsIdle ==
  /\ last.op = "sweep" =>
       \A k \in DOMAIN sessions : now - sessions[k].lastActivity <= sessionTimeout
  /\ (last.op = "dispatch" /\ OwnerOf(last.q) # NoId
        /\ conns[OwnerOf(last.q)].how = "sweep") => last.status = 404

C9_Witness ==
  /\ last.op = "dispatch" /\ last.status = 404 /\ OwnerOf(last.q) # NoId
  /\ conns[OwnerOf(last.q)].how = "sweep"

\* C10: a dispatch that resolves to a live session sets its lastActivity to
\* the current time, and a sweep evicts a session only when more than the
\* idle timeout has passed since the last dispatch routed to it.
C10_DispatchPostponesEviction ==
  [][/\ (last'.op = "dispatch" /\ last' # last /\ last'.status \in {202, 500})
          => sessions'[FindSession(sessions, last'.q)].lastActivity = now
     /\ \A k \in DOMAIN sessions \ DOMAIN sessions' :
          (last'.op = "sweep" /\ conns[k].routedAt >= 0)
            => now - conns[k].routedAt > sessionTimeout]_vars

\* the first session was refreshed by a dispatch and is still there at a
\* sweep, while a session opened no earlier has been evicted
C10_Witness ==
  /\ last.op = "sweep"
  /\ 1 \in DOMAIN sessions /\ conns[1].routedAt > 0
  /\ \E k \in DOMAIN conns : k > 1 /\ conns[k].how = "sweep"

C12_DisconnectTearsDown ==
  last.op \in {"close", "drop", "error"} => last.q \notin DOMAIN sessions

\* C14: the first event written on a newly opened channel is the session
\* announcement; nothing is written on the channel before it.
C14_AnnouncementIsFirst ==
  \A k \in DOMAIN conns :
    Channel(conns[k]) # <<>> => Head(Channel(conns[k])) = "session"

\* C15: a dispatch that carries the id of a live session, in the sessionId
\* query parameter or in the X-Session-ID header, resolves to that session;
\* a dispatch that carries it in neither place is answered 400.
C15_EitherPlaceResolves ==
  /\ (last.op \in {"dispatch", "ssedispatch"} /\ last.via = "none")
       => last.status = 400
  /\ (last.op = "dispatch" /\ last.via # "none"
        /\ FindSession(sessions, last.q) # NoId)
       => /\ last.status # 404
          /\ last.payload = "ok" => last.status \in {202, 500}
          /\ conns[FindSession(sessions, last.q)].routedAt = now
  /\ (last.op = "ssedispatch" /\ last.via # "none" /\ last.q \in DOMAIN sseSessions)
       => last.status \in {202, 500}

\* C16: a dispatch with a malformed payload, or without a session id, is
\* rejected before the session table is touched: it changes no entry and no
\* lastActivity.
C16_RejectedBeforeTable ==
  [][(last'.op = "dispatch" /\ (last'.payload = "malformed" \/ last'.via = "none"))
      => sessions' = sessions]_vars

\* C13: in MCPSSEServer a session whose stream has closed is removed from
\* the sessions map: when the timer that server.onclose sets, the only code
\* that deletes an entry, has run for a session, its entry is gone.
C13_ClosedSessionRemoved ==
  last.op = "ssetimer" => last.q \notin DOMAIN sseSessions

\* the calls whose user.login request is waiting for its answer
LoginsInFlight ==
  {c \in Slots : /\ calls[c].sig.k = "wait"
                 /\ calls[c].stack[Len(calls[c].stack)].a = "user.login"}

\* C18: while tool calls are handled concurrently on the unauthenticated
\* shared client, at most one user.login request is outstanding: concurrent
\* callers share one login.
C18_OneLoginAtATime == Cardinality(LoginsInFlight) <= 1

\* C19: a tool call that fails (upstream error, unknown tool, missing
\* argument, policy error) is answered by the handler returning an error for
\* that call; no exception leaves the handler.
C19_ToolFailureIsReturned ==
  \A c \in Slots :
    (calls[c].sig.k = "done" /\ calls[c].sig.v # "result") => ~calls[c].thrown

C21_SweepSurvivesCloseFailure ==
  [][last'.op = "sweep"
       => DOMAIN sessions' = DOMAIN sessions \ Expired(sessions, now)]_vars

\* the first sweep that can evict anything removed two sessions, and the
\* close() of the one visited first threw (its stream is still open)
C21_Witness ==
  /\ last.op = "sweep" /\ now = sessionTimeout + 1
  /\ \E a, b \in DOMAIN conns \ DOMAIN sessions :
       /\ a < b
       /\ conns[a].how = "sweep" /\ conns[a].stream = "open"
       /\ conns[b].how = "sweep" /\ conns[b].stream = "ended"

\* the tools the claim names, whose inputSchema lists required fields (lines
\* 195, 225, 351), and the request each of them makes
RequiredArgTools == {host_create, item_create, history_get}
RequiredArgMethods == {"host.create", "item.create", "history.get"}

\* C22: a tools/call of MCPStreamServer for host_create, item_create or
\* history_get that lacks the fields the tool's schema requires is rejected
\* before the tool's request goes to the upstream: the request is never sent
\* and the call does not end with a result.
C22_MissingFieldRejected ==
  \A c \in 1..MaxCalls :
    (program = "stream" /\ calls[c].tool \in RequiredArgTools /\ ~calls[c].hasArgs)
      => /\ \A i \in 1..Len(calls[c].sent) :
              calls[c].sent[i].method \notin RequiredArgMethods
         /\ calls[c].sig.k = "done" => calls[c].sig.v # "result"

\* the values of READ_ONLY the README says turn read-only mode on (README.md,
\* line 344)
DocumentedOn == {"true", "1", "yes"}

\* C23: read-only mode is in effect exactly when READ_ONLY is 'true', '1' or
\* 'yes'; with the variable unset or set to anything else, no call of a
\* mutating tool is refused with the policy error.
C23_ReadOnlyAsDocumented ==
  /\ readOnly <=> env \in DocumentedOn
  /\ \A c \in 1..MaxCalls :
       (calls[c].tool \in MutatingTools /\ calls[c].sig.k = "done"
          /\ env \notin DocumentedOn) => calls[c].sig.v # "policy"

\* the start-up the claim calls failed: the Zabbix API cannot be reached or
\* the port is taken
StartupFails == proc.upstream = "down" \/ proc.port = "busy"

\* C24: when start-up fails (upstream unreachable, port cannot be bound) the
\* process has exited with a non-zero code once start-up is over, with no
\* listener accepting streams and no sweep timer running.
C24_FailedStartupAborts ==
  (StartupFails /\ proc.state \notin {"new", "constructed"})
    => /\ proc.state = "exited" /\ proc.exit > 0
       /\ ~proc.listener /\ ~proc.timer

\* the sessions that are live: opened and not closed, disconnected or evicted
LiveSessions ==
  {k \in DOMAIN conns : conns[k].stream = "open" /\ conns[k].how = "none"}

\* C25: GET /health reports as activeSessions the number of sessions that
\* are live at that moment.
C25_HealthCountsLiveSessions ==
  last.op = "health" => last.activeSessions = Cardinality(LiveSessions)

\* C26: when the process has exited on SIGINT (the only exit with code 0),
\* the sweep timer was stopped with clearInterval and every session went
\* through cleanupSession, so the table is empty; this holds however the
\* server was started.
C26_SigintCleansUp ==
  (proc.state = "exited" /\ proc.exit = 0)
    => /\ proc.cleared
       /\ DOMAIN sessions = {}
       /\ \A k \in DOMAIN conns : conns[k].how # "none"

\* the entries of the table an identifier resolves to, as POST /message
\* compares it: with the key and with the transport's own sessionId
ResolvesTo(id) ==
  {k \in DOMAIN sessions : k = id \/ sessions[k].transport = id}

\* the identifiers the server has handed out
IssuedIds == DOMAIN conns \cup {conns[k].tid : k \in DOMAIN conns}

C28_LastActivityMonotone ==
  [][\A k \in DOMAIN sessions \cap DOMAIN sessions' :
       sessions'[k].lastActivity >= sessions[k].lastActivity]_vars

\* a dispatch has moved the lastActivity of a session forward: it is now
\* later than that of a session opened after it
C28_Witness ==
  /\ Routed
  /\ \E k, j \in DOMAIN sessions :
       /\ k < j
       /\ conns[k].routedAt = now /\ sessions[k].lastActivity = now
       /\ sessions[j].lastActivity < now

\* C29: the stream-open handler stores the session before anything tells the
\* client that the stream is ready: whenever a client has seen the endpoint
\* event of server.connect or the announcement, of a session not torn down
\* since, the identifier it was given resolves to that session.
C29_InsertBeforeReadiness ==
  \A k \in DOMAIN conns :
    (conns[k].known # "none" /\ conns[k].how = "none")
      => /\ FindSession(sessions, conns[k].tid) = k
         /\ conns[k].known = "both" => FindSession(sessions, k) = k

\* the announcement has just been written on an open stream and its session
\* is in the table
C29_Witness ==
  /\ last.op = "open" /\ last.status = 200
  /\ conns[last.q].known = "both" /\ last.q \in DOMAIN sessions

C32_CloseAcceptsDispatchIds ==
  (last.op = "delete" /\ last.status = 404) => FindSession(sessions, last.q) = NoId

\* C35: a sweep removes a session only if its idle time at the sweep, now
\* minus lastActivity, is strictly greater than the timeout; a session idle
\* for exactly the timeout or less stays.
C35_EvictionIsStrict ==
  [][last'.op = "sweep"
       => \A k \in DOMAIN sessions :
            now - sessions[k].lastActivity <= sessionTimeout
              => k \in DOMAIN sessions']_vars

\* a sweep has just run: a session was evicted by a sweep, and a session
\* idle for exactly the timeout is still in the table
C35_Witness ==
  /\ last.op = "sweep"
  /\ \E a \in DOMAIN conns \ DOMAIN sessions : conns[a].how = "sweep"
  /\ \E b \in DOMAIN sessions : now - sessions[b].lastActivity = sessionTimeout

\* the sessions a step tears down, by the answer it leaves: the one a DELETE
\* or a disconnect hook names, or those a sweep finds expired
TornDownBy(reply, S, t) ==
  IF reply.op = "sweep" THEN Expired(S, t)
  ELSE IF reply.op \in {"delete", "close", "error"} THEN {reply.q}
  ELSE {}

\* C36: tearing down session A by DELETE, by A's disconnect hooks or by the
\* sweep leaves every other session's entry as it was: present, with the
\* same server and transport and the same lastActivity.
C36_TeardownLeavesOthers ==
  [][last'.op \in {"delete", "close", "error", "sweep"}
       => \A k \in DOMAIN sessions \ TornDownBy(last', sessions, now) :
            k \in DOMAIN sessions' /\ sessions'[k] = sessions[k]]_vars

\* the error hook of one session removed it while another session, whose
\* stream is open, is in the table
C36_Witness ==
  /\ last.op = "error" /\ last.q \notin DOMAIN sessions
  /\ \E k \in DOMAIN sessions : conns[k].stream = "open" /\ conns[k].how = "none"

\* C37: a dispatch that carries a sessionId query parameter is routed by it
\* alone, whatever the X-Session-ID header says: when the query names no
\* live session the answer is 404 and no session's lastActivity changes,
\* even if the header names a live session; when it names one, no other
\* session is refreshed.
C37_QueryAloneRoutes ==
  [][(last'.op = "dispatch" /\ last'.query # NoId)
       => LET k == FindSession(sessions, last'.query)
          IN  /\ k = NoId => (last'.status = 404 /\ sessions' = sessions)
              /\ \A j \in DOMAIN sessions \ {k} :
                   j \in DOMAIN sessions' /\ sessions'[j] = sessions[j]]_vars

\* a request whose query named no live session and whose header named a
\* live one, idle since the clock last advanced, was answered 404
C37_Witness ==
  /\ last.op = "dispatch" /\ last.status = 404
  /\ last.query # NoId /\ FindSession(sessions, last.query) = NoId
  /\ FindSession(sessions, last.shadowed) # NoId
  /\ sessions[FindSession(sessions, last.shadowed)].lastActivity < now

\* the call in slot c was ended by a throw of login(): on MCPStreamServer an
\* item_get call that came to an error of the client before its own request,
\* item.get, was sent can only have failed in the login of lines 484-486
LoginThrew(c) ==
  /\ program = "stream" /\ calls[c].tool = item_get
  /\ calls[c].sig.k = "done"
  /\ calls[c].sig.v \in {"connect", "upstream", "upstreamAuth"}
  /\ \A i \in 1..Len(calls[c].sent) : calls[c].sent[i].method # "item.get"

\* C33: when login() has thrown, the client is left unauthenticated:
\* isAuthenticated() answers false.
C33_FailedLoginLeavesNoToken ==
  \A c \in 1..MaxCalls : LoginThrew(c) => authToken = NoToken

\* what verifyConnectivity hands back when the answer resp arrives for the
\* request the call in slot c waits for, d being the depth of the
\* verifyConnectivity frame: TRUE while it goes on to a further request
VerifyHandsBack(c, d, resp, values) ==
  LET m == RunToDepth(RequestReceives([c |-> calls[c], token |-> authToken], resp), d)
  IN  Len(m.c.stack) < d => (m.c.sig.k = "ok" /\ m.c.sig.v \in values)

\* the tools of the stdio server that begin with verifyConnectivity() and
\* stop when it reports connected: false
VerifyFirstTools == {dashboard_create, iops_dashboard_create}

\* C38: verifyConnectivity never throws. Whatever answer arrives while one
\* of its requests is in flight, what its caller gets is a result: after a
\* failed version request {connected: false}, after a failed authentication
\* step {authenticated: false}. A tool that begins with verifyConnectivity
\* and sent nothing but the version request ends on the report, not on an
\* error of the client. login() calls verifyConnectivity without testAuth, so
\* no stack holds login() twice, and the check main() makes at start-up on a
\* client that has not logged in ends, on a result, whatever the answers.
C38_VerifyNeverThrows ==
  /\ \A m \in StartupChecks :
       /\ \/ m.c.sig.k = "wait"
          \/ /\ m.c.stack = <<>> /\ m.c.sig.k = "ok"
             /\ m.c.sig.v \in {"notconnected", "authenticated", "notauthenticated"}
       /\ \A d \in 2..Len(m.c.stack) :
            (m.c.stack[d].f = "verify" /\ m.c.stack[d - 1].f = "login")
              => m.c.stack[d].a = "noauth"
       /\ Cardinality({d \in 1..Len(m.c.stack) : m.c.stack[d].f = "login"}) <= 1
  /\ \A c \in 1..MaxCalls :
    LET st == calls[c].stack IN
    /\ \A d \in 1..Len(st) :
         (st[d].f = "verify" /\ calls[c].sig.k = "wait")
           => \A resp \in Responses :
                /\ VerifyHandsBack(c, d, resp, {"connected", "notconnected",
                                                "authenticated", "notauthenticated"})
                /\ (st[d].pc = "version" /\ resp \notin {"ok", "lacking"})
                     => VerifyHandsBack(c, d, resp, {"notconnected"})
                /\ (st[d].pc = "auth" /\ resp \notin {"ok", "lacking"})
                     => VerifyHandsBack(c, d, resp, {"notauthenticated"})
    /\ \A d \in 2..Len(st) :
         (st[d].f = "verify" /\ st[d - 1].f = "login") => st[d].a = "noauth"
    /\ Cardinality({d \in 1..Len(st) : st[d].f = "login"}) <= 1
    /\ (program = "stdio" /\ calls[c].tool \in VerifyFirstTools
          /\ calls[c].sig.k = "done" /\ calls[c].sent # <<>>
          /\ \A i \in 1..Len(calls[c].sent) :
               calls[c].sent[i].method = "apiinfo.version")
         => calls[c].sig.v = "data"

\* on the stdio server a tool that begins with verifyConnectivity ended on
\* its report of connected: false, the version request having failed
C38_Witness ==
  \E c \in 1..MaxCalls :
    /\ program = "stdio" /\ calls[c].tool \in VerifyFirstTools
    /\ calls[c].sig.k = "done" /\ calls[c].sig.v = "data"
    /\ Len(calls[c].sent) = 1 /\ calls[c].sent[1].method = "apiinfo.version"
    /\ \E m \in StartupChecks :
         /\ m.c.sig.k = "wait" /\ Len(m.c.stack) > 2
         /\ m.c.stack[1].f = "verify" /\ m.c.stack[1].a = "auth"
         /\ m.c.stack[2].f = "login"
         /\ m.c.stack[3].f = "verify" /\ m.c.stack[3].a = "noauth"
    /\ \E m \in StartupChecks :
         m.c.sig.k = "ok" /\ m.c.sig.v = "notauthenticated" /\ m.token = NoToken

\* the answers that report a failed authentication
AuthenticationFailures == {"apiAuthError"}

\* the step sends the request of the call in slot c a second time: the call
\* was waiting for the answer to the first attempt of request() and now
\* waits for the answer to the second
ResendStep(c) ==
  LET a == calls[c].stack
      b == calls'[c].stack
  IN  /\ calls[c].sig.k = "wait" /\ calls'[c].sig.k = "wait"
      /\ Len(a) > 0 /\ Len(b) = Len(a)
      /\ a[Len(a)].f = "request" /\ a[Len(a)].pc = 0
      /\ b[Len(b)].f = "request" /\ b[Len(b)].pc = 1
      /\ Len(calls'[c].sent) = Len(calls[c].sent) + 1

\* the answers to the first attempt that make the client take this step
AnswersResent(c) ==
  {resp \in Responses :
     Run(RequestReceives([c |-> calls[c], token |-> authToken], resp)).c = calls'[c]}

\* a call waiting for the answer to an attempt of request(): the attempt
\* number is 0 or 1, and the token travelled as the attempt number says
AttemptInOrder(c) ==
  LET st == calls[c].stack
      top == st[Len(st)]
      style == calls[c].sent[Len(calls[c].sent)].style
  IN  (calls[c].sig.k = "wait" /\ Len(st) > 0 /\ top.f = "request")
        => /\ top.pc \in {0, 1}
           /\ calls[c].sent # <<>>
           /\ top.pc = 0 => style \in {"bearer", "none"}
           /\ top.pc = 1 => style \in {"legacy", "none"}
           /\ style = "none" <=> (authToken = NoToken
                                   \/ top.a \in {"user.login", "apiinfo.version"})

\* C31: request() tries the Bearer header first and the legacy auth
\* parameter second, makes at most two attempts per call, and goes to the
\* second attempt only after the first was answered with an authentication
\* error.
C31_TwoStylesInOrder ==
  /\ [](\A c \in 1..MaxCalls : AttemptInOrder(c))
  /\ [][\A c \in 1..MaxCalls :
          (ResendStep(c) /\ calls'[c].sent[Len(calls'[c].sent)].style = "legacy")
            => AnswersResent(c) \subseteq AuthenticationFailures]_vars

\* C34: request() sends a call to the upstream a second time only when the
\* first attempt failed with an authentication error; a call that failed
\* for any other reason is not sent again.
C34_ResentOnlyAfterAuthError ==
  [][\A c \in 1..MaxCalls :
       ResendStep(c) => AnswersResent(c) \subseteq AuthenticationFailures]_vars

\* the parts of C31 that do not depend on what counts as an authentication
\* error
AttemptsInOrder == \A c \in 1..MaxCalls : AttemptInOrder(c)

====
